---- MODULE Spec2Model ----
(***************************************************************************)
(* Site residency and hopping detection of mdgo (src/mdgo/coordination.py). *)
(*                                                                         *)
(* The state is the caller's trajectory mapping (a Python dict, kept in    *)
(* insertion order, from candidate key to distance series), the arguments  *)
(* of the call that was made on it and what that call left behind: the     *)
(* per-frame site and distance arrays, the hopping frequency and the       *)
(* closest-approach steps.                                                 *)
(*                                                                         *)
(* Numbers.  Distances are exact rationals with the fixed denominator      *)
(* Unit = 35 * 35: the integer d stands for the distance d / Unit.  35 is  *)
(* the denominator of the quadratic Savitzky-Golay weights of window 5,    *)
(* so a series of whole distances stays exact through two smoothings.      *)
(* Floating-point rounding is not modelled.                                *)
(*                                                                         *)
(* Keys.  A candidate key is the decimal string of an atom id, written as  *)
(* its sequence of digits (<<1, 2>> is "12").  The site list of the code   *)
(* holds such keys and the int 0 side by side until line 78 casts it; the  *)
(* int 0 of that list is written Zero.                                     *)
(***************************************************************************)
EXTENDS Integers, Sequences, FiniteSets, TLC

VARIABLES
    trj,             \* the caller's mapping: sequence of [key, series], in dict order
    pc,              \* "ready" | "returned" | "raised"
    time_step,       \* arguments of the call (0 before any call)
    distance,
    hopping_cutoff,
    smooth,
    sites,           \* the site list after line 78 (ints, 0 = unbound)
    site_distance,   \* the distance list of lines 58-77
    frequency,       \* <<change, time_span * time_step>>: the quotient of line 101
    steps,           \* closest-approach frame indices (0-based) of lines 80-99
    op,              \* the function that was called ("none" before any call)
    cool,            \* argument of find_in_n_out
    steps_in,        \* hop-in frame indices (0-based) of lines 140-163
    steps_out,       \* hop-out frame indices
    in_cool,         \* the two counters of lines 143-162 when the loop ends
    out_cool,
    nvt_run,         \* the universe: per frame, the distance of every atom to li_atom
    run_start,       \* arguments of trajectory(); its distance argument is distance
    run_end,
    species,
    queries,         \* select_atoms calls made by trajectory()
    frames_read,     \* frames trajectory() has iterated over, both passes
    kept             \* what the caller keeps of the first of two calls

vars == <<trj, pc, time_step, distance, hopping_cutoff, smooth,
          sites, site_distance, frequency, steps,
          op, cool, steps_in, steps_out, in_cool, out_cool,
          nvt_run, run_start, run_end, species, queries, frames_read, kept>>

(***************************************************************************)
(* Bounds of the model.                                                    *)
(***************************************************************************)
MaxT == 3            \* frame counts 1..MaxT of the mappings drawn over DistVals
LongT == 5           \* frame count of the mappings drawn over LongVals
MaxHopT == 7         \* frame counts 1..MaxHopT of the one-candidate mappings
MaxCool == 3         \* cool is drawn from 0..MaxCool
MaxFrames == 3       \* the universe has 1..MaxFrames frames
SessionT == 6        \* frames of the mappings that are passed to two calls

Unit == 35 * 35
D(x) == x * Unit

\* the literal 100 of lines 32, 58, 64 and 71
Sentinel == D(100)

\* candidate keys "1" and "12"
KeyA == <<1>>
KeyB == <<1, 2>>

\* the int 0 of the uncast site list (line 59)
Zero == <<>>

\* distances drawn for the mappings: within every cutoff, between the cutoffs
\* 2 and 4, and beyond the sentinel
DistVals == {D(1), D(3), D(150)}

\* (distance, hopping_cutoff) pairs passed by the callers
CutoffPairs ==
    {<<D(2), D(4)>>, <<D(2), D(2)>>, <<D(4), D(4)>>, <<D(4), D(2)>>, <<D(2), D(100)>>}

TimeSteps == {1, 2}

\* odd windows above the polynomial order 2 of line 57
SmoothWindows == {3, 5}

(***************************************************************************)
(* The mapping.                                                            *)
(***************************************************************************)
Range(s) == {s[i] : i \in DOMAIN s}

KeysOf(m) == [i \in DOMAIN m |-> m[i].key]

\* trj.get(k)
Get(m, k) == m[CHOOSE i \in DOMAIN m : m[i].key = k].series

\* trj.get(k)[t], t a 0-based frame
DistAt(m, k, t) == Get(m, k)[t + 1]

\* len(list(trj.values())[0]); the empty mapping is handled by the caller
TimeSpan(m) == Len(m[1].series)

\* int(i) of line 78: a decimal string to its number, the int 0 to itself
RECURSIVE PyInt(_)
PyInt(v) ==
    IF v = Zero THEN 0 ELSE v[Len(v)] + 10 * PyInt(SubSeq(v, 1, Len(v) - 1))

(***************************************************************************)
(* savgol_filter(x, window, 2), mode "interp" (scipy.signal, line 57).     *)
(* Inside the series the value at a frame is the least-squares quadratic   *)
(* through the window centred on it, evaluated at the centre; the first    *)
(* and last (window - 1) / 2 values come from the quadratic fitted to the  *)
(* first, respectively last, window.  SavgolWeights(w, p) are the weights  *)
(* of the w window values in the fitted quadratic's value at offset p      *)
(* from the window centre, over the denominator SavgolDen(w).  With three  *)
(* points the quadratic interpolates, so window 3 returns the series.      *)
(***************************************************************************)
SavgolDen(w) == IF w = 3 THEN 1 ELSE 35

SavgolWeights(w, p) ==
    IF w = 3
    THEN CASE p = -1 -> <<1, 0, 0>>
           [] p = 0  -> <<0, 1, 0>>
           [] p = 1  -> <<0, 0, 1>>
    ELSE CASE p = -2 -> <<31, 9, -3, -5, 3>>
           [] p = -1 -> <<9, 13, 12, 6, -5>>
           [] p = 0  -> <<-3, 12, 17, 12, -3>>
           [] p = 1  -> <<-5, 6, 12, 13, 9>>
           [] p = 2  -> <<3, -5, -3, 9, 31>>

RECURSIVE Dot(_, _, _, _)
Dot(c, x, first, j) ==
    IF j = 0 THEN 0 ELSE c[j] * x[first + j - 1] + Dot(c, x, first, j - 1)

SavgolFilter(x, w) ==
    LET n == Len(x)
        h == (w - 1) \div 2
    IN  [i \in 1..n |->
            LET first == IF i <= h THEN 1
                         ELSE IF i > n - h THEN n - w + 1
                         ELSE i - h
                p == i - (first + h)
            IN  Dot(SavgolWeights(w, p), x, first, w) \div SavgolDen(w)]

\* lines 56-57: every series of the mapping is replaced by its smoothing
Smoothed(m, w) ==
    [i \in DOMAIN m |-> [key |-> m[i].key, series |-> SavgolFilter(m[i].series, w)]]

(***************************************************************************)
(* Site assignment, lines 58-77 (and their copy, lines 118-137).           *)
(***************************************************************************)
\* min(trj, key=lambda k: trj[k][t]): the first key, in dict order, of least distance
\* faulty variant: the first key of greatest distance
MinKeyFarthest(m, t) ==
    m[CHOOSE i \in DOMAIN m :
         /\ \A j \in DOMAIN m : m[j].series[t + 1] <= m[i].series[t + 1]
         /\ \A j \in 1..(i - 1) : m[j].series[t + 1] < m[i].series[t + 1]].key

\* faulty variant: of several keys of least distance the last one
MinKeyLastOfTies(m, t) ==
    m[CHOOSE i \in DOMAIN m :
         /\ \A j \in DOMAIN m : m[j].series[t + 1] >= m[i].series[t + 1]
         /\ \A j \in (i + 1)..Len(m) : m[j].series[t + 1] > m[i].series[t + 1]].key

MinKey(m, t) ==
    m[CHOOSE i \in DOMAIN m :
         /\ \A j \in DOMAIN m : m[j].series[t + 1] >= m[i].series[t + 1]
         /\ \A j \in 1..(i - 1) : m[j].series[t + 1] > m[i].series[t + 1]].key

\* lines 58-61: both lists at their initial values, frame 0 set from the nearest key
\* faulty variant: frame 0 takes the first key of the mapping
AssignInitFirstKey(m) ==
    LET T == TimeSpan(m)
        s0 == m[1].key
    IN  [sites |-> [i \in 1..T |-> IF i = 1 THEN s0 ELSE Zero],
         site_distance |-> [i \in 1..T |-> IF i = 1 THEN DistAt(m, s0, 0) ELSE Sentinel]]

AssignInit(m) ==
    LET T == TimeSpan(m)
        s0 == MinKey(m, 0)
    IN  [sites |-> [i \in 1..T |-> IF i = 1 THEN s0 ELSE Zero],
         site_distance |-> [i \in 1..T |-> IF i = 1 THEN DistAt(m, s0, 0) ELSE Sentinel]]

\* lines 63-66
\* faulty variant: an unbound previous frame counts as distance 0
OldSiteDistanceUnboundZero(m, prev, time) ==
    IF prev = Zero THEN 0 ELSE DistAt(m, prev, time)

\* faulty variant: an unbound previous frame is beyond every hopping cutoff
OldSiteDistanceUnboundFar(m, prev, time) ==
    IF prev = Zero THEN Sentinel + Sentinel ELSE DistAt(m, prev, time)

OldSiteDistance(m, prev, time) ==
    IF prev = Zero THEN Sentinel ELSE DistAt(m, prev, time)

\* lines 68-74: the full search
\* faulty variant: an unbound frame records the least distance found
SearchBranchKeepsMinimum(m, bind, time, st) ==
    LET new_site == MinKey(m, time)
        new_site_distance == DistAt(m, new_site, time)
    IN  IF new_site_distance > bind
        THEN [st EXCEPT !.site_distance[time + 1] = new_site_distance]
        ELSE [st EXCEPT !.sites[time + 1] = new_site,
                        !.site_distance[time + 1] = new_site_distance]

SearchBranch(m, bind, time, st) ==
    LET new_site == MinKey(m, time)
        new_site_distance == DistAt(m, new_site, time)
    IN  IF new_site_distance > bind
        THEN [st EXCEPT !.site_distance[time + 1] = Sentinel]
        ELSE [st EXCEPT !.sites[time + 1] = new_site,
                        !.site_distance[time + 1] = new_site_distance]

\* lines 76-77: stay
\* faulty variant: a stay repeats the distance recorded one frame earlier
StayBranchStaleDistance(prev, old_site_distance, time, st) ==
    [st EXCEPT !.sites[time + 1] = prev,
               !.site_distance[time + 1] = st.site_distance[time]]

StayBranch(prev, old_site_distance, time, st) ==
    [st EXCEPT !.sites[time + 1] = prev,
               !.site_distance[time + 1] = old_site_distance]

\* lines 63-77: one iteration of the loop over time
\* faulty variant: the binding cutoff decides whether to search
AssignStepBindCutoff(m, bind, hop, time, st) ==
    LET prev == st.sites[time]
        old_site_distance == OldSiteDistance(m, prev, time)
    IN  IF old_site_distance > bind
        THEN SearchBranch(m, bind, time, st)
        ELSE StayBranch(prev, old_site_distance, time, st)

\* faulty variant: every frame searches
AssignStepAlwaysSearches(m, bind, hop, time, st) ==
    SearchBranch(m, bind, time, st)

AssignStep(m, bind, hop, time, st) ==
    LET prev == st.sites[time]
        old_site_distance == OldSiteDistance(m, prev, time)
    IN  IF old_site_distance > hop
        THEN SearchBranch(m, bind, time, st)
        ELSE StayBranch(prev, old_site_distance, time, st)

\* line 62: for time in range(1, time_span)
RECURSIVE AssignLoop(_, _, _, _, _)
AssignLoop(m, bind, hop, time, st) ==
    IF time >= TimeSpan(m) THEN st
    ELSE AssignLoop(m, bind, hop, time + 1, AssignStep(m, bind, hop, time, st))

\* lines 58-78: the cast site list and the distance list
AssignSites(m, bind, hop) ==
    LET st == AssignLoop(m, bind, hop, 1, AssignInit(m))
    IN  [sites |-> [i \in DOMAIN st.sites |-> PyInt(st.sites[i])],
         site_distance |-> st.site_distance]

(***************************************************************************)
(* Closest-approach steps, lines 80-99.  The loop state is the steps list, *)
(* closest_step and previous_site; i is the 0-based frame.                 *)
(***************************************************************************)
\* lines 80-82
ClosestInit(s) ==
    [steps |-> <<>>, closest_step |-> 0, previous_site |-> s[1]]

\* lines 84-97: one iteration
\* faulty variant: closest_step is never moved inside an episode
ClosestStepKeepsFirst(s, d, i, st) ==
    IF s[i + 1] = 0 THEN st
    ELSE IF s[i + 1] = st.previous_site
    THEN st
    ELSE [steps |-> Append(st.steps, st.closest_step),
          closest_step |-> i,
          previous_site |-> s[i + 1]]

\* faulty variant: an unbound frame forgets the site of the open episode
ClosestStepGapCloses(s, d, i, st) ==
    IF s[i + 1] = 0 THEN [st EXCEPT !.previous_site = 0]
    ELSE IF s[i + 1] = st.previous_site
    THEN IF d[i + 1] < d[st.closest_step + 1]
         THEN [st EXCEPT !.closest_step = i]
         ELSE st
    ELSE [steps |-> Append(st.steps, st.closest_step),
          closest_step |-> i,
          previous_site |-> s[i + 1]]

\* faulty variant: a frame of equal distance replaces the best index
ClosestStepLatestOfTies(s, d, i, st) ==
    IF s[i + 1] = 0 THEN st
    ELSE IF s[i + 1] = st.previous_site
    THEN IF d[i + 1] <= d[st.closest_step + 1]
         THEN [st EXCEPT !.closest_step = i]
         ELSE st
    ELSE [steps |-> Append(st.steps, st.closest_step),
          closest_step |-> i,
          previous_site |-> s[i + 1]]

ClosestStep(s, d, i, st) ==
    IF s[i + 1] = 0 THEN st
    ELSE IF s[i + 1] = st.previous_site
    THEN IF d[i + 1] < d[st.closest_step + 1]
         THEN [st EXCEPT !.closest_step = i]
         ELSE st
    ELSE [steps |-> Append(st.steps, st.closest_step),
          closest_step |-> i,
          previous_site |-> s[i + 1]]

\* line 83: for i, step in enumerate(sites_and_distance_array)
RECURSIVE ClosestLoop(_, _, _, _)
ClosestLoop(s, d, i, st) ==
    IF i >= Len(s) THEN st
    ELSE ClosestLoop(s, d, i + 1, ClosestStep(s, d, i, st))

\* lines 98-99: previous_site is a number, never None, so the open episode is appended
\* faulty variant: the open episode is not appended
ClosestFinishDropsLast(st) == st.steps

ClosestFinish(st) == Append(st.steps, st.closest_step)

\* lines 80-99
ClosestSteps(s, d) == ClosestFinish(ClosestLoop(s, d, 0, ClosestInit(s)))

(***************************************************************************)
(* Hopping frequency, lines 100-101.                                       *)
(***************************************************************************)
\* [i for i in sites if i != 0]
NonZero(s) == SelectSeq(s, LAMBDA x : x # 0)

\* (np.diff(...) != 0).sum()
Change(s) ==
    LET f == NonZero(s)
    IN  Cardinality({i \in 2..Len(f) : f[i] - f[i - 1] # 0})

\* change / (time_span * time_step), kept as <<numerator, denominator>>
\* faulty variant: the denominator counts the bound frames only
FrequencyFilteredSpan(s, span, ts) == <<Change(s), Len(NonZero(s)) * ts>>

\* faulty variant: the denominator leaves out time_step
FrequencyNoTimeStep(s, span, ts) == <<Change(s), span>>

Frequency(s, span, ts) == <<Change(s), span * ts>>

(***************************************************************************)
(* The mappings the callers hold.                                          *)
(***************************************************************************)
KeyOrders == {<<KeyA>>, <<KeyA, KeyB>>, <<KeyB, KeyA>>}

Mappings(order, T, vals) ==
    {[i \in DOMAIN order |-> [key |-> order[i], series |-> f[order[i]]]] :
        f \in [Range(order) -> [1..T -> vals]]}

\* distances of the mappings of LongT frames
LongVals == {D(1), D(5)}

\* {A: [1,1,6,6,1,1], B: [5,5,1,1,5,5]}
RoundTripTrj ==
    <<[key |-> KeyA, series |-> <<D(1), D(1), D(6), D(6), D(1), D(1)>>],
      [key |-> KeyB, series |-> <<D(5), D(5), D(1), D(1), D(5), D(5)>>]>>

InitialMappings ==
    UNION {Mappings(order, T, DistVals) : order \in KeyOrders, T \in 1..MaxT}
    \cup Mappings(<<KeyA, KeyB>>, LongT, LongVals)
    \cup {RoundTripTrj, <<>>}

\* the caller has kept no result
NoKept ==
    [op |-> "none", sites |-> <<>>, distance |-> 0, hopping_cutoff |-> 0, smooth |-> 0]

\* nothing has been called yet
NoCall ==
    /\ pc = "ready"
    /\ op = "none"
    /\ time_step = 0
    /\ distance = 0
    /\ hopping_cutoff = 0
    /\ smooth = 0
    /\ sites = <<>>
    /\ site_distance = <<>>
    /\ frequency = <<0, 0>>
    /\ steps = <<>>
    /\ cool = 0
    /\ steps_in = <<>>
    /\ steps_out = <<>>
    /\ in_cool = 0
    /\ out_cool = 0
    /\ run_start = 0
    /\ run_end = 0
    /\ species = ""
    /\ queries = 0
    /\ frames_read = 0
    /\ kept = NoKept

Init ==
    /\ trj \in InitialMappings
    /\ nvt_run = <<>>
    /\ NoCall

(***************************************************************************)
(* find_nearest(trj, time_step, distance, hopping_cutoff, smooth),         *)
(* lines 43-102.                                                           *)
(***************************************************************************)
\* line 55 raises IndexError on the empty mapping; savgol_filter raises
\* ValueError on a window longer than the series, at the first key
Raises(m, w) == Len(m) = 0 \/ w > TimeSpan(m)

\* faulty variant: an empty mapping gives an empty, all-unbound result
FindNearestDefaultsOnEmpty ==
    /\ pc = "ready"
    /\ op' = "find_nearest"
    /\ UNCHANGED <<cool, steps_in, steps_out, in_cool, out_cool,
                   nvt_run, run_start, run_end, species, queries, frames_read, kept>>
    /\ \E ts \in TimeSteps, cp \in CutoffPairs, w \in SmoothWindows :
        /\ time_step' = ts
        /\ distance' = cp[1]
        /\ hopping_cutoff' = cp[2]
        /\ smooth' = w
        /\ IF Len(trj) = 0
           THEN /\ pc' = "returned"
                /\ UNCHANGED <<trj, sites, site_distance, frequency, steps>>
           ELSE IF Raises(trj, w)
           THEN /\ pc' = "raised"
                /\ UNCHANGED <<trj, sites, site_distance, frequency, steps>>
           ELSE \E m \in {Smoothed(trj, w)} :
                \E a \in {AssignSites(m, cp[1], cp[2])} :
                    /\ pc' = "returned"
                    /\ trj' = m
                    /\ sites' = a.sites
                    /\ site_distance' = a.site_distance
                    /\ steps' = ClosestSteps(a.sites, a.site_distance)
                    /\ frequency' = Frequency(a.sites, TimeSpan(trj), ts)

FindNearest ==
    /\ pc = "ready"
    /\ op' = "find_nearest"
    /\ UNCHANGED <<cool, steps_in, steps_out, in_cool, out_cool,
                   nvt_run, run_start, run_end, species, queries, frames_read, kept>>
    /\ \E ts \in TimeSteps, cp \in CutoffPairs, w \in SmoothWindows :
        /\ time_step' = ts
        /\ distance' = cp[1]
        /\ hopping_cutoff' = cp[2]
        /\ smooth' = w
        /\ IF Raises(trj, w)
           THEN /\ pc' = "raised"
                /\ UNCHANGED <<trj, sites, site_distance, frequency, steps>>
           ELSE \E m \in {Smoothed(trj, w)} :
                \E a \in {AssignSites(m, cp[1], cp[2])} :
                    /\ pc' = "returned"
                    /\ trj' = m
                    /\ sites' = a.sites
                    /\ site_distance' = a.site_distance
                    /\ steps' = ClosestSteps(a.sites, a.site_distance)
                    /\ frequency' = Frequency(a.sites, TimeSpan(trj), ts)

Next == FindNearest

Spec == Init /\ [][Next]_vars

(***************************************************************************)
(* find_in_n_out(trj, distance, hopping_cutoff, smooth, cool),             *)
(* lines 105-163.                                                          *)
(***************************************************************************)
\* lines 118-137: the function's own copy of the assignment loop.  sl and dl
\* are sites and site_distance with the frames before time already set.
RECURSIVE InOutAssignLoop(_, _, _, _, _, _)
InOutAssignLoop(m, bind, hop, time, sl, dl) ==
    IF time >= Len(sl) THEN [sites |-> sl, site_distance |-> dl]
    ELSE IF time = 0
    THEN InOutAssignLoop(m, bind, hop, 1,
             [sl EXCEPT ![1] = MinKey(m, 0)],
             [dl EXCEPT ![1] = DistAt(m, MinKey(m, 0), 0)])
    ELSE LET old_site_distance ==
                 IF sl[time] = Zero THEN Sentinel ELSE DistAt(m, sl[time], time)
         IN  IF old_site_distance > hop
             THEN IF DistAt(m, MinKey(m, time), time) > bind
                  THEN InOutAssignLoop(m, bind, hop, time + 1,
                           sl, [dl EXCEPT ![time + 1] = Sentinel])
                  ELSE InOutAssignLoop(m, bind, hop, time + 1,
                           [sl EXCEPT ![time + 1] = MinKey(m, time)],
                           [dl EXCEPT ![time + 1] = DistAt(m, MinKey(m, time), time)])
             ELSE InOutAssignLoop(m, bind, hop, time + 1,
                      [sl EXCEPT ![time + 1] = sl[time]],
                      [dl EXCEPT ![time + 1] = old_site_distance])

\* lines 118-138
\* faulty variant: frame 0 is left unbound and the loop starts from it
InOutAssignSitesUnboundStart(m, bind, hop) ==
    LET T == TimeSpan(m)
        st == InOutAssignLoop(m, bind, hop, 1,
                  [i \in 1..T |-> Zero], [i \in 1..T |-> Sentinel])
    IN  [sites |-> [i \in 1..T |-> PyInt(st.sites[i])],
         site_distance |-> st.site_distance]

InOutAssignSites(m, bind, hop) ==
    LET T == TimeSpan(m)
        st == InOutAssignLoop(m, bind, hop, 0,
                  [i \in 1..T |-> Zero], [i \in 1..T |-> Sentinel])
    IN  [sites |-> [i \in 1..T |-> PyInt(st.sites[i])],
         site_distance |-> st.site_distance]

\* lines 140-144; raised records an IndexError of list.pop()
\* faulty variant: the scan starts as if the ion were unbound before frame 0
ExtractInitUnbound(s, c) ==
    [last |-> 0, steps_in |-> <<>>, steps_out |-> <<>>,
     in_cool |-> c, out_cool |-> c, raised |-> FALSE]

\* faulty variant: both counters start at 0
ExtractInitZeroCounters(s, c) ==
    [last |-> s[1], steps_in |-> <<>>, steps_out |-> <<>>,
     in_cool |-> 0, out_cool |-> 0, raised |-> FALSE]

ExtractInit(s, c) ==
    [last |-> s[1], steps_in |-> <<>>, steps_out |-> <<>>,
     in_cool |-> c, out_cool |-> c, raised |-> FALSE]

\* the tests of lines 151 and 156
\* faulty variant: the window includes its last frame
WithinCooldownInclusive(counter, c) == counter <= c

WithinCooldown(counter, c) == counter < c

\* list.pop()
Pop(l) == SubSeq(l, 1, Len(l) - 1)

\* lines 148-152
HopIn(c, i, st) ==
    LET a == [st EXCEPT !.in_cool = 0, !.steps_in = Append(@, i)]
    IN  IF WithinCooldown(st.out_cool, c)
        THEN IF a.steps_out = <<>>
             THEN [a EXCEPT !.raised = TRUE]
             ELSE [a EXCEPT !.steps_out = Pop(@)]
        ELSE a

\* lines 153-157
\* faulty variant: a hop-out inside the cooldown removes the hop-in and is
\* not recorded itself
HopOutCancelsPair(c, i, st) ==
    IF WithinCooldown(st.in_cool, c)
    THEN IF st.steps_in = <<>>
         THEN [st EXCEPT !.raised = TRUE]
         ELSE [st EXCEPT !.out_cool = 0, !.steps_in = Pop(@)]
    ELSE [st EXCEPT !.out_cool = 0, !.steps_out = Append(@, i)]

HopOut(c, i, st) ==
    LET a == [st EXCEPT !.out_cool = 0, !.steps_out = Append(@, i)]
    IN  IF WithinCooldown(st.in_cool, c)
        THEN IF a.steps_in = <<>>
             THEN [a EXCEPT !.raised = TRUE]
             ELSE [a EXCEPT !.steps_in = Pop(@)]
        ELSE a

\* lines 146-159: the event, if any, of frame i
\* faulty variant: the counters are not reset by an event
HopEventNoReset(s, c, i, st) ==
    IF st.last = s[i + 1] THEN st
    ELSE IF st.last = 0 THEN [st EXCEPT !.steps_in = Append(@, i)]
    ELSE IF s[i + 1] = 0 THEN [st EXCEPT !.steps_out = Append(@, i)]
    ELSE st

\* faulty variant: a change between two candidates counts as a hop-in
HopEventDirectChange(s, c, i, st) ==
    IF st.last = s[i + 1] THEN st
    ELSE IF s[i + 1] # 0 THEN HopIn(c, i, st)
    ELSE HopOut(c, i, st)

HopEvent(s, c, i, st) ==
    IF st.last = s[i + 1] THEN st
    ELSE IF st.last = 0 THEN HopIn(c, i, st)
    ELSE IF s[i + 1] = 0 THEN HopOut(c, i, st)
    ELSE st

\* lines 146-162: one iteration
HopStep(s, c, i, st) ==
    LET e == HopEvent(s, c, i, st)
    IN  IF e.raised THEN e
        ELSE [e EXCEPT !.last = s[i + 1], !.in_cool = @ + 1, !.out_cool = @ + 1]

\* line 145: for i, s in enumerate(sites)
RECURSIVE HopLoop(_, _, _, _)
HopLoop(s, c, i, st) ==
    IF i >= Len(s) \/ st.raised THEN st
    ELSE HopLoop(s, c, i + 1, HopStep(s, c, i, st))

\* lines 140-163
ExtractHops(s, c) == HopLoop(s, c, 0, ExtractInit(s, c))

Cools == 0..MaxCool

\* {A: [1,5,1,5,5,5,5], B: [5,5,5,5,5,5,1]}: sites A,0,A,0,0,0,B under cutoffs 2 and 4
CooldownTrj ==
    <<[key |-> KeyA, series |-> <<D(1), D(5), D(1), D(5), D(5), D(5), D(5)>>],
      [key |-> KeyB, series |-> <<D(5), D(5), D(5), D(5), D(5), D(5), D(1)>>]>>

InOutMappings ==
    UNION {Mappings(<<KeyA>>, T, LongVals) : T \in 1..MaxHopT}
    \cup Mappings(<<KeyA, KeyB>>, LongT, LongVals)
    \cup {CooldownTrj, <<>>}

InitInOut ==
    /\ trj \in InOutMappings
    /\ nvt_run = <<>>
    /\ NoCall

FindInNOut ==
    /\ pc = "ready"
    /\ op' = "find_in_n_out"
    /\ UNCHANGED <<time_step, frequency, steps,
                   nvt_run, run_start, run_end, species, queries, frames_read, kept>>
    /\ \E cp \in CutoffPairs, w \in SmoothWindows, c \in Cools :
        /\ distance' = cp[1]
        /\ hopping_cutoff' = cp[2]
        /\ smooth' = w
        /\ cool' = c
        /\ IF Raises(trj, w)
           THEN /\ pc' = "raised"
                /\ UNCHANGED <<trj, sites, site_distance,
                               steps_in, steps_out, in_cool, out_cool>>
           ELSE \E m \in {Smoothed(trj, w)} :
                \E a \in {InOutAssignSites(m, cp[1], cp[2])} :
                \E h \in {ExtractHops(a.sites, c)} :
                    /\ pc' = IF h.raised THEN "raised" ELSE "returned"
                    /\ trj' = m
                    /\ sites' = a.sites
                    /\ site_distance' = a.site_distance
                    /\ steps_in' = h.steps_in
                    /\ steps_out' = h.steps_out
                    /\ in_cool' = h.in_cool
                    /\ out_cool' = h.out_cool

NextInOut == FindInNOut

SpecInOut == InitInOut /\ [][NextInOut]_vars

(***************************************************************************)
(* trajectory(nvt_run, li_atom, run_start, run_end, species,               *)
(* selection_dict, distance), lines 18-40.                                 *)
(*                                                                         *)
(* A frame of the universe gives, for every atom id, the minimum-image     *)
(* distance of that atom to li_atom: it is what distance_array returns at  *)
(* line 37 and what the "around" selection of line 27 compares with the    *)
(* capture radius.                                                         *)
(***************************************************************************)
\* selection_dict: species name -> ids of the atoms its selection matches
SelectionDict == [anion |-> {1, 12}, solvent |-> {7}]

AtomIds == UNION {SelectionDict[k] : k \in DOMAIN SelectionDict}

\* species names the callers pass; "water" is no key of selection_dict
SpeciesNames == {"anion", "solvent", "water"}

\* the capture radius the callers pass and the distances of the universe,
\* inside and outside it
CaptureRadii == {D(10)}

UniverseVals == {D(3), D(12)}

\* str(atom.id)
RECURSIVE PyStr(_)
PyStr(n) == IF n < 10 THEN <<n>> ELSE Append(PyStr(n \div 10), n % 10)

\* the elements of a set of numbers in increasing order (atoms come in index order)
RECURSIVE Ascending(_)
Ascending(S) ==
    IF S = {} THEN <<>>
    ELSE LET least == CHOOSE x \in S : \A y \in S : x <= y
         IN  <<least>> \o Ascending(S \ {least})

\* line 21: nvt_run.trajectory[run_start:run_end:], as 1-based frame positions;
\* a slice is cut at the end of the trajectory
TrjAnalysis(u, a, b) ==
    [i \in 1..((IF b < Len(u) THEN b ELSE Len(u)) - a) |-> a + i]

\* lines 26-29: the atoms of the species within the radius at frame f
Shell(u, f, sp, radius) ==
    Ascending({x \in SelectionDict[sp] : u[f][x] <= radius})

\* line 32: np.full(run_end - run_start, 100.0)
\* faulty variant: the series covers the frames from the current one on
FullSeriesFromNow(a, b, time_count) == [i \in 1..(b - a - time_count) |-> Sentinel]

FullSeries(a, b, time_count) == [i \in 1..(b - a) |-> Sentinel]

\* lines 30-32: the atoms of one shell
RECURSIVE ScanShell(_, _, _, _, _, _)
ScanShell(shell, i, a, b, time_count, dv) ==
    IF i > Len(shell) THEN dv
    ELSE ScanShell(shell, i + 1, a, b, time_count,
             IF PyStr(shell[i]) \in Range(KeysOf(dv)) THEN dv
             ELSE Append(dv, [key |-> PyStr(shell[i]),
                              series |-> FullSeries(a, b, time_count)]))

\* lines 25-33: the first pass
RECURSIVE ScanFrames(_, _, _, _, _, _, _, _)
ScanFrames(u, fs, sp, radius, a, b, time_count, dv) ==
    IF time_count >= Len(fs) THEN dv
    ELSE ScanFrames(u, fs, sp, radius, a, b, time_count + 1,
             ScanShell(Shell(u, fs[time_count + 1], sp, radius), 1, a, b, time_count, dv))

\* lines 36-38: the distances of one frame
FillFrame(u, f, radius, time_count, dv) ==
    [i \in DOMAIN dv |->
        [dv[i] EXCEPT !.series[time_count + 1] = u[f][PyInt(dv[i].key)]]]

\* lines 34-39: the second pass
RECURSIVE FillFrames(_, _, _, _, _)
FillFrames(u, fs, radius, time_count, dv) ==
    IF time_count >= Len(fs) THEN dv
    ELSE FillFrames(u, fs, radius, time_count + 1,
             FillFrame(u, fs[time_count + 1], radius, time_count, dv))

\* lines 19-40: what the call returns and how much of the universe it read
\* faulty variant: the species is looked up after the frames were counted
TrajectoryLateLookup(u, a, b, sp, radius) ==
    LET fs == TrjAnalysis(u, a, b)
    IN  IF sp \notin DOMAIN SelectionDict
        THEN [none |-> TRUE, dist_values |-> <<>>, queries |-> 0,
              frames_read |-> Len(fs)]
        ELSE [none |-> FALSE,
              dist_values |->
                  FillFrames(u, fs, radius, 0,
                      ScanFrames(u, fs, sp, radius, a, b, 0, <<>>)),
              queries |-> Len(fs),
              frames_read |-> 2 * Len(fs)]

Trajectory(u, a, b, sp, radius) ==
    LET fs == TrjAnalysis(u, a, b)
    IN  IF sp \notin DOMAIN SelectionDict
        THEN [none |-> TRUE, dist_values |-> <<>>, queries |-> 0, frames_read |-> 0]
        ELSE [none |-> FALSE,
              dist_values |->
                  FillFrames(u, fs, radius, 0,
                      ScanFrames(u, fs, sp, radius, a, b, 0, <<>>)),
              queries |-> Len(fs),
              frames_read |-> 2 * Len(fs)]

Universes ==
    UNION {[1..n -> [AtomIds -> UniverseVals]] : n \in 1..MaxFrames}

InitTrajectory ==
    /\ trj = <<>>
    /\ nvt_run \in Universes
    /\ NoCall

\* pc becomes "returned_none" when the call returns None
CallTrajectory ==
    /\ pc = "ready"
    /\ op' = "trajectory"
    /\ UNCHANGED <<nvt_run, time_step, hopping_cutoff, smooth, sites, site_distance,
                   frequency, steps, cool, steps_in, steps_out, in_cool, out_cool, kept>>
    /\ \E a \in 0..(Len(nvt_run) - 1), b \in 1..(Len(nvt_run) + 1),
          sp \in SpeciesNames, radius \in CaptureRadii :
        /\ a < b
        /\ run_start' = a
        /\ run_end' = b
        /\ species' = sp
        /\ distance' = radius
        /\ \E r \in {Trajectory(nvt_run, a, b, sp, radius)} :
            /\ pc' = IF r.none THEN "returned_none" ELSE "returned"
            /\ trj' = r.dist_values
            /\ queries' = r.queries
            /\ frames_read' = r.frames_read

NextTrajectory == CallTrajectory

SpecTrajectory == InitTrajectory /\ [][NextTrajectory]_vars

(***************************************************************************)
(* Two calls on one mapping object.  find_nearest and find_in_n_out take   *)
(* the caller's dict and assign to its entries (lines 56-57 and 116-117),  *)
(* so a second call starts from the mapping the first one left.  The       *)
(* caller binds what the first call returned (lines 102 and 163) and       *)
(* calls again.                                                            *)
(***************************************************************************)
\* the mappings of a caller that calls twice; they are longer than the
\* window 5, for which smoothing a series of 5 frames twice is smoothing it once
SessionMappings ==
    Mappings(<<KeyA>>, SessionT, LongVals) \cup {<<>>}

InitSession ==
    /\ trj \in SessionMappings
    /\ nvt_run = <<>>
    /\ NoCall

\* the caller keeps the returned site list and the arguments of the first call
KeepResult ==
    /\ pc = "returned"
    /\ kept.op = "none"
    /\ kept' = [op |-> op, sites |-> sites, distance |-> distance,
                hopping_cutoff |-> hopping_cutoff, smooth |-> smooth]
    /\ pc' = "ready"
    /\ UNCHANGED <<trj, time_step, distance, hopping_cutoff, smooth, sites,
                   site_distance, frequency, steps, op, cool, steps_in, steps_out,
                   in_cool, out_cool, nvt_run, run_start, run_end, species,
                   queries, frames_read>>

NextSession == FindNearest \/ FindInNOut \/ KeepResult

SpecSession == InitSession /\ [][NextSession]_vars

(***************************************************************************)
(* Vocabulary of the properties.  Frames are 0-based as in the code; the   *)
(* lists hold frame t at position t + 1.  After a call that returned, trj  *)
(* is the smoothed mapping the assignment worked on.                       *)
(***************************************************************************)
Returned == pc = "returned"

Frames == 0..(Len(sites) - 1)

SiteAt(t) == sites[t + 1]

RecordedAt(t) == site_distance[t + 1]

\* the candidates of the mapping whose key is the decimal string of site n
KeysOfSite(n) == {k \in Range(KeysOf(trj)) : PyInt(k) = n}

KeyOfSite(n) == CHOOSE k \in KeysOfSite(n) : TRUE

\* least distance of any candidate at frame t
MinDistAt(t) ==
    CHOOSE d \in {DistAt(trj, k, t) : k \in Range(KeysOf(trj))} :
        \A k \in Range(KeysOf(trj)) : DistAt(trj, k, t) >= d

\* the distance the loop compares with the hopping cutoff at frame t >= 1
CurrentDistanceAt(t) ==
    IF SiteAt(t - 1) = 0 THEN Sentinel ELSE DistAt(trj, KeyOfSite(SiteAt(t - 1)), t)

(***************************************************************************)
(* C1: whenever find_nearest returns, the site list has one entry per      *)
(* frame of the trajectory, and its entry at frame 0 is a candidate whose  *)
(* smoothed distance at frame 0 is least among all candidates, whatever    *)
(* the two cutoffs are.                                                    *)
(***************************************************************************)
C1_LengthAndInitialSite ==
    Returned =>
        /\ Len(sites) = TimeSpan(trj)
        /\ SiteAt(0) # 0
        /\ \E k \in KeysOfSite(SiteAt(0)) : DistAt(trj, k, 0) = MinDistAt(0)

\* frame 0 is assigned although its nearest candidate is outside both cutoffs
C1_Witness ==
    /\ Returned
    /\ Len(trj) = 2
    /\ MinDistAt(0) > distance
    /\ MinDistAt(0) > hopping_cutoff
    /\ SiteAt(0) = PyInt(trj[2].key)

(***************************************************************************)
(* C2: hysteresis stay rule.  At every frame t >= 1 whose previous site is *)
(* a candidate s with distance at t within the hopping cutoff, the site at *)
(* t is s and the recorded distance is the distance of s at t.             *)
(***************************************************************************)
C2_StayWithinHoppingCutoff ==
    Returned =>
        \A t \in Frames \ {0} :
            (SiteAt(t - 1) # 0 /\ CurrentDistanceAt(t) <= hopping_cutoff)
                => /\ SiteAt(t) = SiteAt(t - 1)
                   /\ RecordedAt(t) = DistAt(trj, KeyOfSite(SiteAt(t - 1)), t)

\* a stay although another candidate is strictly closer and within the binding cutoff
C2_Witness ==
    /\ Returned
    /\ \E t \in Frames \ {0} :
        /\ SiteAt(t - 1) # 0
        /\ SiteAt(t) = SiteAt(t - 1)
        /\ MinDistAt(t) < RecordedAt(t)
        /\ MinDistAt(t) <= distance
        /\ RecordedAt(t) > distance

(***************************************************************************)
(* C3: search rule.  At every frame t >= 1 whose current distance (that of *)
(* the previous site at t, or 100 after an unbound frame) exceeds the      *)
(* hopping cutoff, the site is a candidate of least distance at t when     *)
(* that distance is within the binding cutoff, and otherwise the site is 0 *)
(* and the recorded distance is 100, not the least distance.               *)
(***************************************************************************)
C3_SearchBeyondHoppingCutoff ==
    Returned =>
        \A t \in Frames \ {0} :
            CurrentDistanceAt(t) > hopping_cutoff =>
                IF MinDistAt(t) <= distance
                THEN /\ SiteAt(t) # 0
                     /\ \E k \in KeysOfSite(SiteAt(t)) : DistAt(trj, k, t) = MinDistAt(t)
                     /\ RecordedAt(t) = MinDistAt(t)
                ELSE /\ SiteAt(t) = 0
                     /\ RecordedAt(t) = Sentinel

\* one search moves to another candidate, another search ends unbound with a
\* least distance that is not 100
C3_Witness ==
    /\ Returned
    /\ \E t \in Frames \ {0} :
        /\ CurrentDistanceAt(t) > hopping_cutoff
        /\ SiteAt(t) # 0
        /\ SiteAt(t) # SiteAt(t - 1)
    /\ \E t \in Frames \ {0} :
        /\ CurrentDistanceAt(t) > hopping_cutoff
        /\ SiteAt(t) = 0
        /\ MinDistAt(t) # Sentinel

(***************************************************************************)
(* C4: sentinel invariant.  Every frame whose site is 0 has recorded       *)
(* distance exactly 100.                                                   *)
(***************************************************************************)
C4_UnboundCarriesSentinel ==
    Returned => \A t \in Frames : SiteAt(t) = 0 => RecordedAt(t) = Sentinel

\* an unbound frame found by a search and an unbound frame kept after it,
\* with candidates at other distances than 100
C4_Witness ==
    /\ Returned
    /\ \E t \in Frames \ {0} :
        /\ SiteAt(t) = 0
        /\ SiteAt(t - 1) = 0
        /\ MinDistAt(t) < Sentinel
        /\ MinDistAt(t - 1) > Sentinel

(***************************************************************************)
(* C5: every frame whose site is a candidate has as recorded distance the  *)
(* smoothed distance of that candidate at that frame.                      *)
(***************************************************************************)
C5_RecordedIsSiteDistance ==
    Returned =>
        \A t \in Frames :
            SiteAt(t) # 0 => RecordedAt(t) = DistAt(trj, KeyOfSite(SiteAt(t)), t)

\* a stay whose distance differs from the one recorded a frame earlier
C5_Witness ==
    /\ Returned
    /\ \E t \in Frames \ {0} :
        /\ SiteAt(t) # 0
        /\ SiteAt(t) = SiteAt(t - 1)
        /\ CurrentDistanceAt(t) > distance
        /\ RecordedAt(t) # RecordedAt(t - 1)

(***************************************************************************)
(* C6: round-trip scenario.  On the smoothed trajectory                    *)
(* A = [1,1,6,6,1,1], B = [5,5,1,1,5,5] with binding cutoff 2 and hopping  *)
(* cutoff 4 the sites are [A,A,B,B,A,A] and the frequency is               *)
(* 2 / (6 * time_step).                                                    *)
(***************************************************************************)
C6_RoundTripScenario ==
    (Returned /\ trj = RoundTripTrj /\ distance = D(2) /\ hopping_cutoff = D(4)) =>
        /\ sites = <<PyInt(KeyA), PyInt(KeyA), PyInt(KeyB), PyInt(KeyB),
                     PyInt(KeyA), PyInt(KeyA)>>
        /\ sites = <<1, 1, 12, 12, 1, 1>>
        /\ frequency = <<2, 6 * time_step>>

\* the scenario has been run, with a time step other than 1
C6_Witness ==
    /\ Returned
    /\ trj = RoundTripTrj
    /\ distance = D(2)
    /\ hopping_cutoff = D(4)
    /\ time_step = 2
    /\ Len(steps) = 3

(***************************************************************************)
(* C7, as claimed: with equal cutoffs the site at every frame is the       *)
(* nearest candidate when its distance is within the cutoff and 0          *)
(* otherwise (single-threshold nearest-neighbour assignment).              *)
(***************************************************************************)
C7_NearestNeighbourAssignment ==
    (Returned /\ distance = hopping_cutoff) =>
        \A t \in Frames :
            IF MinDistAt(t) <= distance
            THEN /\ SiteAt(t) # 0
                 /\ DistAt(trj, KeyOfSite(SiteAt(t)), t) = MinDistAt(t)
            ELSE SiteAt(t) = 0

(***************************************************************************)
(* C7, amended: with equal cutoffs below 100, at every frame t >= 1 the    *)
(* site is a candidate exactly when the nearest candidate is within the    *)
(* cutoff, and the distance recorded for a candidate is within the cutoff. *)
(* The candidate need not be the nearest one, and frame 0 is assigned      *)
(* whatever its distance.                                                  *)
(***************************************************************************)
C7_SingleThresholdBinding ==
    (Returned /\ distance = hopping_cutoff /\ distance < Sentinel) =>
        \A t \in Frames \ {0} :
            /\ SiteAt(t) # 0 <=> MinDistAt(t) <= distance
            /\ SiteAt(t) # 0 => RecordedAt(t) <= distance

\* equal cutoffs: a site is kept while another candidate is nearer, and a
\* later frame is unbound because no candidate is within the cutoff
C7_Witness ==
    /\ Returned
    /\ distance = hopping_cutoff
    /\ distance < Sentinel
    /\ \E t \in Frames \ {0} :
        /\ SiteAt(t) # 0
        /\ MinDistAt(t) < RecordedAt(t)
    /\ \E t \in Frames \ {0} :
        /\ SiteAt(t) = 0
        /\ MinDistAt(t) > distance

\* pairs of frames i < j bound to different candidates with only unbound
\* frames between them: the label changes of the site list without its zeros
LabelChanges ==
    {p \in Frames \X Frames :
        /\ p[1] < p[2]
        /\ SiteAt(p[1]) # 0
        /\ SiteAt(p[2]) # 0
        /\ SiteAt(p[1]) # SiteAt(p[2])
        /\ \A k \in (p[1] + 1)..(p[2] - 1) : SiteAt(k) = 0}

(***************************************************************************)
(* C8: the frequency has as numerator the number of label changes of the   *)
(* site list with its zeros removed, and as denominator the full frame     *)
(* count times time_step.                                                  *)
(***************************************************************************)
C8_FrequencyQuotient ==
    Returned =>
        /\ frequency[1] = Cardinality(LabelChanges)
        /\ frequency[2] = Len(sites) * time_step

\* a change across an unbound frame: the zero-removed list is shorter than T
C8_Witness ==
    /\ Returned
    /\ \E p \in LabelChanges : p[2] > p[1] + 1
    /\ time_step = 2

(***************************************************************************)
(* C9, as claimed: the steps list is no longer than the number of label    *)
(* changes of the zero-removed site list.                                  *)
(***************************************************************************)
C9_EpisodesAtMostChanges ==
    Returned => Len(steps) <= Cardinality(LabelChanges)

(***************************************************************************)
(* C9, amended: the steps list has exactly one entry more than the number  *)
(* of label changes of the zero-removed site list.                         *)
(***************************************************************************)
C9_EpisodesAreChangesPlusOne ==
    Returned => Len(steps) = Cardinality(LabelChanges) + 1

\* two label changes, three episodes
C9_Witness ==
    /\ Returned
    /\ Cardinality(LabelChanges) = 2
    /\ Len(steps) = 3

\* the site of the latest bound frame at or before t
LastNonZeroAt(t) ==
    SiteAt(CHOOSE u \in 0..t : SiteAt(u) # 0 /\ \A v \in (u + 1)..t : SiteAt(v) = 0)

\* frames at which a residency episode begins
EpisodeStarts ==
    {t \in Frames : SiteAt(t) # 0 /\ (t = 0 \/ SiteAt(t) # LastNonZeroAt(t - 1))}

\* the frames of the k-th episode, unbound frames inside and after it included
EpisodeFrames(k) ==
    {t \in Frames : Cardinality({b \in EpisodeStarts : b <= t}) = k}

(***************************************************************************)
(* C10, as claimed: the k-th step is a frame of the k-th residency episode *)
(* whose recorded distance is least among all frames of that episode, its  *)
(* unbound frames included.                                                *)
(***************************************************************************)
C10_ClosestOverAllFrames ==
    Returned =>
        /\ Len(steps) = Cardinality(EpisodeStarts)
        /\ \A k \in DOMAIN steps :
            /\ steps[k] \in EpisodeFrames(k)
            /\ \A t \in EpisodeFrames(k) : RecordedAt(steps[k]) <= RecordedAt(t)

(***************************************************************************)
(* C10, amended: the k-th step is a bound frame of the k-th residency      *)
(* episode whose recorded distance is least among the bound frames of that *)
(* episode; the unbound frames of the episode, recorded as 100, are not    *)
(* compared.                                                               *)
(***************************************************************************)
C10_ClosestOverBoundFrames ==
    Returned =>
        /\ Len(steps) = Cardinality(EpisodeStarts)
        /\ \A k \in DOMAIN steps :
            /\ steps[k] \in EpisodeFrames(k)
            /\ SiteAt(steps[k]) # 0
            /\ \A t \in EpisodeFrames(k) :
                SiteAt(t) # 0 => RecordedAt(steps[k]) <= RecordedAt(t)

\* an episode with an unbound frame inside it whose step is not its first frame
C10_Witness ==
    /\ Returned
    /\ \E k \in DOMAIN steps :
        /\ steps[k] \notin EpisodeStarts
        /\ \E t \in EpisodeFrames(k) :
            /\ SiteAt(t) = 0
            /\ \E u \in EpisodeFrames(k) : u > t /\ SiteAt(u) # 0

\* frames t >= 1 bound to another candidate than the latest bound frame before t
EpisodeBoundaries ==
    {t \in Frames \ {0} : SiteAt(t) # 0 /\ SiteAt(t) # LastNonZeroAt(t - 1)}

(***************************************************************************)
(* C11: episodes are gap tolerant.  The steps list has one entry for the   *)
(* episode open at the end plus one per frame whose candidate differs from *)
(* the most recent earlier candidate; consecutive entries are separated by *)
(* such a frame, the last entry lies at or after the last of them, and a   *)
(* sequence that returns to the same candidate after unbound frames yields *)
(* a single entry.                                                         *)
(***************************************************************************)
C11_GapTolerantEpisodes ==
    Returned =>
        /\ Len(steps) = 1 + Cardinality(EpisodeBoundaries)
        /\ \A k \in 1..(Len(steps) - 1) :
            \E b \in EpisodeBoundaries : steps[k] < b /\ b <= steps[k + 1]
        /\ \A b \in EpisodeBoundaries : b <= steps[Len(steps)]
        /\ (\A t \in Frames : SiteAt(t) \in {0, SiteAt(0)}) => Len(steps) = 1

\* A, 0, A: the candidate is bound again after an unbound frame, one episode
C11_Witness ==
    /\ Returned
    /\ Len(steps) = 1
    /\ \E t \in Frames \ {0} :
        /\ SiteAt(t) = 0
        /\ t + 1 \in Frames
        /\ SiteAt(t + 1) = SiteAt(t - 1)
        /\ SiteAt(t + 1) # 0

(***************************************************************************)
(* Vocabulary of the hop properties, over the site list find_in_n_out      *)
(* built.                                                                  *)
(***************************************************************************)
ReturnedInOut == pc = "returned" /\ op = "find_in_n_out"

\* frames at which the ion binds after an unbound frame, and at which it unbinds
BindFrames == {t \in Frames \ {0} : SiteAt(t - 1) = 0 /\ SiteAt(t) # 0}

UnbindFrames == {t \in Frames \ {0} : SiteAt(t - 1) # 0 /\ SiteAt(t) = 0}

\* frames at which the site changes from one candidate to another
DirectChanges ==
    {t \in Frames \ {0} : SiteAt(t - 1) # 0 /\ SiteAt(t) # 0 /\ SiteAt(t) # SiteAt(t - 1)}

Increasing(l) == \A i \in 1..(Len(l) - 1) : l[i] < l[i + 1]

\* the ion unbinds at t1 and binds next at t2
Excursion(t1, t2) ==
    /\ t1 \in UnbindFrames
    /\ t2 \in BindFrames
    /\ t1 < t2
    /\ \A t \in t1..(t2 - 1) : SiteAt(t) = 0

(***************************************************************************)
(* C12: with cool = 0 nothing is cancelled.  The hop-in list is the        *)
(* increasing list of all frames at which the ion binds after an unbound   *)
(* frame, the hop-out list that of all frames at which it unbinds.         *)
(***************************************************************************)
C12_NoCancellationAtZeroCool ==
    (ReturnedInOut /\ cool = 0) =>
        /\ Range(steps_in) = BindFrames
        /\ Range(steps_out) = UnbindFrames
        /\ Increasing(steps_in)
        /\ Increasing(steps_out)

\* cool = 0 and the ion binds again on the frame after it unbound
C12_Witness ==
    /\ ReturnedInOut
    /\ cool = 0
    /\ \E t \in UnbindFrames : t + 1 \in BindFrames
    /\ Len(steps_in) >= 2

(***************************************************************************)
(* C13: cooldown scenario.  For the sites A,0,A,0,0,0,B and cool = 3 the   *)
(* returned lists hold neither the hop-out at frame 1 nor the hop-in at    *)
(* frame 2, and the hop-in at frame 6 is in the hop-in list.               *)
(***************************************************************************)
C13_CooldownScenario ==
    (ReturnedInOut /\ sites = <<1, 0, 1, 0, 0, 0, 12>> /\ cool = 3) =>
        /\ 1 \notin Range(steps_out)
        /\ 2 \notin Range(steps_in)
        /\ 6 \in Range(steps_in)

\* the scenario has been run
C13_Witness ==
    /\ ReturnedInOut
    /\ sites = <<1, 0, 1, 0, 0, 0, 12>>
    /\ cool = 3
    /\ steps_in = <<6>>

(***************************************************************************)
(* C14: short gaps are invisible.  Whenever the ion unbinds at t1 and      *)
(* binds next at t2 with t2 - t1 < cool, t1 is not in the hop-out list and *)
(* t2 is not in the hop-in list.                                           *)
(***************************************************************************)
C14_ShortGapInvisible ==
    ReturnedInOut =>
        \A t1, t2 \in Frames :
            (Excursion(t1, t2) /\ t2 - t1 < cool) =>
                /\ t1 \notin Range(steps_out)
                /\ t2 \notin Range(steps_in)

(***************************************************************************)
(* C15, as claimed: whenever the ion unbinds at t1 and binds next at t2    *)
(* with t2 - t1 > cool, t1 is in the hop-out list and t2 is in the hop-in  *)
(* list.                                                                   *)
(***************************************************************************)
C15_LongExcursionRecorded ==
    ReturnedInOut =>
        \A t1, t2 \in Frames :
            (Excursion(t1, t2) /\ t2 - t1 > cool) =>
                /\ t1 \in Range(steps_out)
                /\ t2 \in Range(steps_in)

(***************************************************************************)
(* C15, amended: whenever the ion unbinds at t1 and binds next at t2 with  *)
(* t2 - t1 > cool, t1 is in the hop-out list, and t2 is in the hop-in list *)
(* exactly when the ion does not unbind again fewer than cool frames after *)
(* t2.                                                                     *)
(***************************************************************************)
C15_LongExcursionUnlessShortStay ==
    ReturnedInOut =>
        \A t1, t2 \in Frames :
            (Excursion(t1, t2) /\ t2 - t1 > cool) =>
                /\ t1 \in Range(steps_out)
                /\ t2 \in Range(steps_in)
                       <=> ~ \E t3 \in UnbindFrames : t3 > t2 /\ t3 - t2 < cool

\* a long excursion whose hop-out is kept and whose hop-in is dropped by an
\* unbinding fewer than cool frames later
C15_Witness ==
    /\ ReturnedInOut
    /\ cool > 0
    /\ \E t1, t2 \in Frames :
        /\ Excursion(t1, t2)
        /\ t2 - t1 > cool
        /\ t2 \notin Range(steps_in)
        /\ t1 \in Range(steps_out)

(***************************************************************************)
(* C16: every index of the hop-in list is a frame at which the ion binds   *)
(* after an unbound frame, every index of the hop-out list a frame at      *)
(* which it unbinds; a change from one candidate to another adds no index  *)
(* and resets no counter: when the loop ends each counter is the number of *)
(* frames since the last event of its kind, or cool plus the frame count   *)
(* when there was none.                                                    *)
(***************************************************************************)
C16_OnlyThroughUnbound ==
    ReturnedInOut =>
        /\ Range(steps_in) \subseteq BindFrames
        /\ Range(steps_out) \subseteq UnbindFrames
        /\ \A t \in DirectChanges : t \notin Range(steps_in) \cup Range(steps_out)
        /\ in_cool = IF BindFrames = {} THEN cool + Len(sites)
                     ELSE Len(sites) - (CHOOSE t \in BindFrames :
                                           \A u \in BindFrames : u <= t)
        /\ out_cool = IF UnbindFrames = {} THEN cool + Len(sites)
                      ELSE Len(sites) - (CHOOSE t \in UnbindFrames :
                                            \A u \in UnbindFrames : u <= t)

\* a change between two candidates after the last hop-in, inside its cooldown
C16_Witness ==
    /\ ReturnedInOut
    /\ \E t \in DirectChanges :
        /\ \E u \in BindFrames : u < t /\ t - u < cool
        /\ \A u \in BindFrames \cup UnbindFrames : u < t

(***************************************************************************)
(* C17: the two lists are paired.  Merged in frame order the recorded      *)
(* hop-outs and hop-ins alternate, so the list lengths differ by at most   *)
(* one.                                                                    *)
(***************************************************************************)
C17_ListsAlternate ==
    ReturnedInOut =>
        /\ \A i, j \in DOMAIN steps_in :
            i < j => \E k \in DOMAIN steps_out :
                         steps_in[i] < steps_out[k] /\ steps_out[k] < steps_in[j]
        /\ \A i, j \in DOMAIN steps_out :
            i < j => \E k \in DOMAIN steps_in :
                         steps_out[i] < steps_in[k] /\ steps_in[k] < steps_out[j]
        /\ Len(steps_in) - Len(steps_out) \in {-1, 0, 1}

(***************************************************************************)
(* Vocabulary of the properties of trajectory().                           *)
(***************************************************************************)
ReturnedTrajectory == op = "trajectory" /\ pc = "returned"

\* the frames of the universe the slice run_start:run_end holds
ScannedFrames ==
    {f \in DOMAIN nvt_run : run_start < f /\ f <= run_end}

\* the candidates of the species inside the capture radius at frame f
InsideAt(f) == {x \in SelectionDict[species] : nvt_run[f][x] <= distance}

(***************************************************************************)
(* C18: a species name that is no key of the selection mapping makes       *)
(* trajectory() return None at once: no frame is read, no selection is     *)
(* evaluated and no mapping, not even a partial one, is returned.          *)
(***************************************************************************)
C18_InvalidSpeciesReturnsNone ==
    (op = "trajectory" /\ species \notin DOMAIN SelectionDict) =>
        /\ pc = "returned_none"
        /\ frames_read = 0
        /\ queries = 0
        /\ trj = <<>>

\* an invalid species over a slice of two frames in which atoms of the valid
\* species are inside the radius
C18_Witness ==
    /\ op = "trajectory"
    /\ species = "water"
    /\ pc = "returned_none"
    /\ Cardinality(ScannedFrames) >= 2
    /\ \A f \in ScannedFrames : \E x \in AtomIds : nvt_run[f][x] <= distance

(***************************************************************************)
(* C19: for a valid species every series of the returned mapping has       *)
(* run_end - run_start entries, whenever its candidate first or last was   *)
(* inside the capture radius, and the keys are exactly the candidates      *)
(* that were inside the radius at one scanned frame at least.              *)
(***************************************************************************)
C19_UniformSeriesAndKeySet ==
    ReturnedTrajectory =>
        /\ \A i \in DOMAIN trj : Len(trj[i].series) = run_end - run_start
        /\ \A i, j \in DOMAIN trj : trj[i].key = trj[j].key => i = j
        /\ Range(KeysOf(trj)) =
               {PyStr(x) : x \in {y \in SelectionDict[species] :
                                     \E f \in ScannedFrames : y \in InsideAt(f)}}

\* of two candidates one is inside the radius at the middle frame of three
\* only and the other never
C19_Witness ==
    /\ ReturnedTrajectory
    /\ species = "anion"
    /\ run_start = 0
    /\ run_end = 3
    /\ Len(nvt_run) = 3
    /\ InsideAt(1) = {}
    /\ InsideAt(2) = {12}
    /\ InsideAt(3) = {}
    /\ KeysOf(trj) = <<KeyB>>
    /\ Len(trj[1].series) = 3

(***************************************************************************)
(* C20: in the returned mapping the value of a candidate at a frame at     *)
(* which it was not within the capture radius is the sentinel 100.0.       *)
(***************************************************************************)
C20_SentinelOutsideRadius ==
    ReturnedTrajectory =>
        \A i \in DOMAIN trj : \A t \in DOMAIN trj[i].series :
            (/\ run_start + t \in ScannedFrames
             /\ PyInt(trj[i].key) \notin InsideAt(run_start + t))
                => trj[i].series[t] = Sentinel

(***************************************************************************)
(* C21: neither function changes state outside the call.  When             *)
(* find_nearest or find_in_n_out returns, the caller's mapping holds for   *)
(* every key the series it held before the call.                           *)
(***************************************************************************)
C21_CallerMappingUnchanged ==
    [][pc' = "returned" => trj' = trj]_vars

(***************************************************************************)
(* C22: on a mapping without any candidate both functions end in an        *)
(* error; no site list, frequency, episode list or hop list is returned,   *)
(* in particular no all-unbound result.                                    *)
(***************************************************************************)
C22_EmptyMappingRaises ==
    (op \in {"find_nearest", "find_in_n_out"} /\ trj = <<>>) =>
        /\ pc = "raised"
        /\ sites = <<>>
        /\ site_distance = <<>>
        /\ frequency = <<0, 0>>
        /\ steps = <<>>
        /\ steps_in = <<>>
        /\ steps_out = <<>>

\* find_nearest has been called on the empty mapping
C22_Witness ==
    /\ op = "find_nearest"
    /\ trj = <<>>
    /\ pc = "raised"
    /\ smooth = 3

(***************************************************************************)
(* C23: ties.  Where a search binds (frame 0, or a frame whose current     *)
(* distance exceeds the hopping cutoff and whose least distance is within  *)
(* the binding cutoff) and several candidates share the least distance,    *)
(* the site is the one of them that comes first in the key order of the    *)
(* mapping.                                                                *)
(***************************************************************************)
\* the keys of least distance at frame t, as positions in the mapping
TiedAt(t) == {i \in DOMAIN trj : trj[i].series[t + 1] = MinDistAt(t)}

FirstTiedAt(t) == trj[CHOOSE i \in TiedAt(t) : \A j \in TiedAt(t) : i <= j].key

C23_TieTakesFirstKey ==
    Returned =>
        /\ SiteAt(0) = PyInt(FirstTiedAt(0))
        /\ \A t \in Frames \ {0} :
            (CurrentDistanceAt(t) > hopping_cutoff /\ MinDistAt(t) <= distance)
                => SiteAt(t) = PyInt(FirstTiedAt(t))

\* key "12" precedes key "1" in the mapping; both are tied at frame 0 and at
\* a later frame where a search binds
C23_Witness ==
    /\ Returned
    /\ KeysOf(trj) = <<KeyB, KeyA>>
    /\ Cardinality(TiedAt(0)) = 2
    /\ SiteAt(0) = 12
    /\ \E t \in Frames \ {0} :
        /\ CurrentDistanceAt(t) > hopping_cutoff
        /\ Cardinality(TiedAt(t)) = 2
        /\ MinDistAt(t) <= distance
        /\ SiteAt(t) = 12

(***************************************************************************)
(* C24: the two copies of the assignment agree.  For every mapping, pair   *)
(* of cutoffs and smoothing window the site list find_in_n_out computes    *)
(* (lines 115-138) is, frame by frame, the one find_nearest computes       *)
(* (lines 55-78) from the same smoothed mapping.                           *)
(***************************************************************************)
C24_AssignmentCopiesAgree ==
    ReturnedInOut =>
        \E a \in {AssignSites(trj, distance, hopping_cutoff)} :
            /\ sites = a.sites
            /\ site_distance = a.site_distance

\* two candidates under the window 5, with a change between candidates, an
\* unbinding and a binding
C24_Witness ==
    /\ ReturnedInOut
    /\ Len(trj) = 2
    /\ smooth = 5
    /\ DirectChanges # {}
    /\ UnbindFrames # {}
    /\ BindFrames # {}

(***************************************************************************)
(* C25: find_nearest and then find_in_n_out with cool = 0, on the same     *)
(* mapping object with the same cutoffs and window, give consistent        *)
(* views: the hop-in and hop-out indices of the second call are the        *)
(* 0 -> nonzero and nonzero -> 0 transitions of the site list the first    *)
(* call returned, whatever the smoothing is.                               *)
(***************************************************************************)
\* the frames at which the kept site list binds, and unbinds
KeptBindFrames ==
    {t \in 1..(Len(kept.sites) - 1) : kept.sites[t] = 0 /\ kept.sites[t + 1] # 0}

KeptUnbindFrames ==
    {t \in 1..(Len(kept.sites) - 1) : kept.sites[t] # 0 /\ kept.sites[t + 1] = 0}

C25_SecondCallMatchesFirst ==
    (/\ ReturnedInOut
     /\ cool = 0
     /\ kept.op = "find_nearest"
     /\ kept.distance = distance
     /\ kept.hopping_cutoff = hopping_cutoff
     /\ kept.smooth = smooth)
        => /\ steps_in = Ascending(KeptBindFrames)
           /\ steps_out = Ascending(KeptUnbindFrames)

(***************************************************************************)
(* C26: the extractor never pops an empty list.  Whenever a hop-in finds   *)
(* out_cool < cool the hop-out list is not empty and ends with the hop-out *)
(* that came just before, and whenever a hop-out finds in_cool < cool the  *)
(* hop-in list is not empty and ends with the hop-in that came just        *)
(* before.                                                                 *)
(***************************************************************************)
\* the state of the loop of lines 145-162 when it reaches frame i
BeforeFrame(i) == ExtractHops(SubSeq(sites, 1, i), cool)

\* the last element of a set of frames below frame i
LastBelow(S, i) == CHOOSE t \in S : t < i /\ \A u \in S : u < i => u <= t

C26_PopFindsPrecedingEvent ==
    (op = "find_in_n_out" /\ sites # <<>>) =>
        /\ pc = "returned"
        /\ \A i \in BindFrames :
            \E st \in {BeforeFrame(i)} :
                (~ st.raised /\ st.out_cool < cool) =>
                    /\ st.steps_out # <<>>
                    /\ st.steps_out[Len(st.steps_out)] = LastBelow(UnbindFrames, i)
        /\ \A i \in UnbindFrames :
            \E st \in {BeforeFrame(i)} :
                (~ st.raised /\ st.in_cool < cool) =>
                    /\ st.steps_in # <<>>
                    /\ st.steps_in[Len(st.steps_in)] = LastBelow(BindFrames, i)

\* a hop-in inside the cooldown of a hop-out and a hop-out inside the
\* cooldown of a hop-in, the first event coming fewer than cool frames after
\* frame 0
C26_Witness ==
    /\ ReturnedInOut
    /\ \E i \in BindFrames : BeforeFrame(i).out_cool < cool
    /\ \E i \in UnbindFrames : BeforeFrame(i).in_cool < cool
    /\ \E i \in UnbindFrames : i < cool /\ \A t \in 0..(i - 1) : SiteAt(t) # 0

(***************************************************************************)
(* C27: retention.  A hop-out at frame t1 is in the returned hop-out list  *)
(* exactly when no later hop-in comes at a frame t2 with t2 - t1 < cool,   *)
(* and a hop-in at frame t2 is in the returned hop-in list exactly when no *)
(* later hop-out comes at a frame t3 with t3 - t2 < cool.  In particular   *)
(* the counters' initial values never cancel the first event.              *)
(***************************************************************************)
RetainedHopOuts ==
    {t1 \in UnbindFrames : ~ \E t2 \in BindFrames : t1 < t2 /\ t2 - t1 < cool}

RetainedHopIns ==
    {t2 \in BindFrames : ~ \E t3 \in UnbindFrames : t2 < t3 /\ t3 - t2 < cool}

C27_RetentionRule ==
    ReturnedInOut =>
        /\ steps_out = Ascending(RetainedHopOuts)
        /\ steps_in = Ascending(RetainedHopIns)

\* a first event fewer than cool frames after frame 0 that is kept, and of
\* each kind an event that is dropped
C27_Witness ==
    /\ ReturnedInOut
    /\ \E t \in UnbindFrames :
        /\ t < cool
        /\ \A u \in UnbindFrames \cup BindFrames : t <= u
        /\ t \in Range(steps_out)
    /\ UnbindFrames \ Range(steps_out) # {}
    /\ BindFrames \ Range(steps_in) # {}

(***************************************************************************)
(* C28: with the binding cutoff at most the hopping cutoff, every frame    *)
(* t >= 1 whose site is a candidate has a recorded distance within the     *)
(* hopping cutoff; at a frame where the site changes from one candidate to *)
(* another the recorded distance is within the binding cutoff and the      *)
(* candidate that was left is beyond the hopping cutoff; and a search      *)
(* never selects again the candidate it has just left.                     *)
(***************************************************************************)
C28_BoundWithinHoppingCutoff ==
    (Returned /\ distance <= hopping_cutoff) =>
        \A t \in Frames \ {0} :
            /\ SiteAt(t) # 0 => RecordedAt(t) <= hopping_cutoff
            /\ t \in DirectChanges =>
                /\ RecordedAt(t) <= distance
                /\ DistAt(trj, KeyOfSite(SiteAt(t - 1)), t) > hopping_cutoff
            /\ (SiteAt(t - 1) # 0 /\ CurrentDistanceAt(t) > hopping_cutoff)
                   => SiteAt(t) # SiteAt(t - 1)

\* cutoffs 2 < 4: a stay at a distance between them, a change between
\* candidates, and a search from a candidate that ends unbound
C28_Witness ==
    /\ Returned
    /\ distance < hopping_cutoff
    /\ DirectChanges # {}
    /\ \E t \in Frames \ {0} :
        /\ SiteAt(t) # 0
        /\ RecordedAt(t) > distance
    /\ \E t \in Frames \ {0} :
        /\ SiteAt(t - 1) # 0
        /\ CurrentDistanceAt(t) > hopping_cutoff
        /\ SiteAt(t) = 0

(***************************************************************************)
(* C29: unbound is left only through a search.  With a hopping cutoff      *)
(* below 100 every frame after an unbound frame searches all candidates    *)
(* and binds exactly when the least distance is within the binding cutoff. *)
(* With a hopping cutoff of 100 or more unbound is absorbing: after a      *)
(* frame of site 0 every later frame has site 0, whatever the distances.   *)
(***************************************************************************)
C29_UnboundSearchesOrAbsorbs ==
    Returned =>
        \A t \in Frames \ {0} :
            SiteAt(t - 1) = 0 =>
                IF hopping_cutoff < Sentinel
                THEN IF MinDistAt(t) <= distance
                     THEN /\ SiteAt(t) # 0
                          /\ \E k \in KeysOfSite(SiteAt(t)) :
                                 DistAt(trj, k, t) = MinDistAt(t)
                          /\ RecordedAt(t) = MinDistAt(t)
                     ELSE SiteAt(t) = 0
                ELSE /\ \A u \in Frames : u >= t => SiteAt(u) = 0
                     /\ RecordedAt(t) = Sentinel

\* hopping cutoff 100: the ion unbinds and stays unbound at a frame where a
\* candidate is within the binding cutoff
C29_Witness ==
    /\ Returned
    /\ hopping_cutoff >= Sentinel
    /\ \E t \in Frames \ {0} :
        /\ SiteAt(t - 1) = 0
        /\ MinDistAt(t) <= distance
        /\ SiteAt(t) = 0

(***************************************************************************)
(* C30: the episode indices find_nearest returns are strictly increasing;  *)
(* each one is a frame whose site is a candidate, the candidate of its     *)
(* episode; and of several bound frames of an episode that share the       *)
(* smallest bound distance the earliest is returned.                       *)
(***************************************************************************)
\* the frame at which the k-th episode begins
EpisodeStart(k) ==
    CHOOSE b \in EpisodeStarts : Cardinality({c \in EpisodeStarts : c <= b}) = k

C30_StepsIncreasingEarliestOfTies ==
    Returned =>
        /\ Increasing(steps)
        /\ \A k \in DOMAIN steps :
            /\ SiteAt(steps[k]) # 0
            /\ SiteAt(steps[k]) = SiteAt(EpisodeStart(k))
            /\ \A t \in EpisodeFrames(k) :
                (SiteAt(t) # 0 /\ RecordedAt(t) <= RecordedAt(steps[k]))
                    => steps[k] <= t

\* two episodes; in one of them two bound frames share the smallest distance
\* and the step is the earlier one, which is not the first frame of the episode
C30_Witness ==
    /\ Returned
    /\ Len(steps) >= 2
    /\ \E k \in DOMAIN steps :
        /\ steps[k] # EpisodeStart(k)
        /\ \E t \in EpisodeFrames(k) :
            /\ t > steps[k]
            /\ SiteAt(t) # 0
            /\ RecordedAt(t) = RecordedAt(steps[k])

====
